---- MODULE Spec2Model ----
(***************************************************************************)
(* A model of WADGEN/Ticket.py: the fixed-layout Ticket record, its binary *)
(* codec (parse / pack), the title-id and title-key accessors, common-key  *)
(* resolution and the fakesign padding search.                             *)
(*                                                                         *)
(* Bytes are integers 0..255, byte strings are sequences of bytes, text    *)
(* strings are sequences of one-character strings.  The 64-bit titleid is  *)
(* kept as a sign and sixteen hexadecimal digits (TLC integers are 32 bit).*)
(***************************************************************************)
EXTENDS Integers, Sequences, FiniteSets, TLC

VARIABLES
    ticket,     \* the Ticket object's fields (a record), as Ticket.__init__ names them
    alive,      \* TRUE once a constructor call has returned a Ticket
    stream,     \* the byte stream handed to the constructor (<<>> when none)
    last,       \* the last call: [op, arg, ret, err]
    warned,     \* TRUE when the last call printed the unknown-common-key warning
    pc,         \* "idle", or the position inside fakesign: "loop", "returned", "raised"
    i,          \* fakesign's loop variable
    oldval,     \* fakesign's saved padding
    pre,        \* the ticket as it was when fakesign was called
    sha1zero    \* the paddings at which the unsigned record's SHA-1 digest starts with 00

vars == <<ticket, alive, stream, last, warned, pc, i, oldval, pre, sha1zero>>

(***************************************************************************)
(* Bounds of the model.                                                    *)
(***************************************************************************)
\* bytes of the opaque Signature block on the wire
SigLen == 2
\* bytes of one opaque Certificate block on the wire
CertLen == 2

(***************************************************************************)
(* Field widths of the record, Ticket.parse.                               *)
(***************************************************************************)
IssuerLen == 64
EcdhdataLen == 60
Unused1Len == 3
TitlekeyLen == 16
Unknown1Len == 1
TicketidLen == 8
Unknown2Len == 2
Unknown3Len == 48
ContentAccessLen == 64
LimitsLen == 64
\* range(65535) in fakesign: the candidates are 0 .. PadCandidates - 1
PadCandidates == 65535
\* set_titleid: "Title ID must be 16 characters long."
TitleidChars == 16
\* set_titlekey: "Key must be 32 characters long."
TitlekeyChars == 32
\* set_common_key_index: 0 <= i <= 2
MaxCkeyindex == 2

(***************************************************************************)
(* Bytes, text and hexadecimal digits.                                     *)
(***************************************************************************)
Min(a, b) == IF a < b THEN a ELSE b

Zeros(n) == [k \in 1..n |-> 0]

Fill(n, b) == [k \in 1..n |-> b]

LowerDigits == <<"0","1","2","3","4","5","6","7","8","9","a","b","c","d","e","f">>

UpperDigits == <<"0","1","2","3","4","5","6","7","8","9","A","B","C","D","E","F">>

IsHexChar(c) == \E k \in 1..16 : LowerDigits[k] = c \/ UpperDigits[k] = c

HexVal(c) == (CHOOSE k \in 1..16 : LowerDigits[k] = c \/ UpperDigits[k] = c) - 1

\* str.lower() on the characters the model uses
LowerChar(c) ==
    IF \E k \in 1..16 : UpperDigits[k] = c
    THEN LowerDigits[CHOOSE k \in 1..16 : UpperDigits[k] = c]
    ELSE c

Lower(s) == [k \in 1..Len(s) |-> LowerChar(s[k])]

StartsWith(s, p) == Len(s) >= Len(p) /\ SubSeq(s, 1, Len(p)) = p

\* f.read(n) of a BytesIO at offset pos: at most n bytes, fewer (or none) at the end
Read(s, pos, n) == SubSeq(s, pos + 1, Min(pos + n, Len(s)))

(***************************************************************************)
(* struct: big-endian integers.  A value is an integer, except a ">Q"      *)
(* value, which is [neg, mag]: a sign and 16 hexadecimal digits, most      *)
(* significant first.                                                      *)
(***************************************************************************)
StructError == "struct.error"

NoError == "none"

Ok(v) == [err |-> NoError, val |-> v]

Raise(e) == [err |-> e, val |-> <<>>]

RECURSIVE BEValue(_)
BEValue(b) == IF b = <<>> THEN 0 ELSE BEValue(SubSeq(b, 1, Len(b) - 1)) * 256 + b[Len(b)]

RECURSIVE BEBytes(_, _)
BEBytes(v, w) == IF w = 0 THEN <<>> ELSE Append(BEBytes(v \div 256, w - 1), v % 256)

Pow256(w) == IF w = 1 THEN 256 ELSE 65536

\* struct.unpack(">Q", b)[0]
UnpackQ(b) ==
    [neg |-> FALSE,
     mag |-> [k \in 1..16 |-> IF k % 2 = 1 THEN b[(k + 1) \div 2] \div 16
                                           ELSE b[k \div 2] % 16]]

\* struct.pack(">Q", v): only 0 <= v < 2^64 has an encoding
PackQ(v) ==
    IF v.neg THEN Raise(StructError)
    ELSE Ok([k \in 1..8 |-> v.mag[2 * k - 1] * 16 + v.mag[2 * k]])

\* struct.calcsize of the formats the record uses
FmtWidth(fmt) ==
    CASE fmt = "L" -> 4 [] fmt = "H" -> 2 [] fmt = "B" -> 1 [] fmt = "?" -> 1 [] fmt = "Q" -> 8

\* Unpack without the size check: a short buffer is read as if padded with zeros
UnpackPadded(fmt, b) ==
    LET full == [k \in 1..FmtWidth(fmt) |-> IF k <= Len(b) THEN b[k] ELSE 0]
    IN CASE fmt = "?" -> Ok(full[1] # 0)
         [] fmt = "Q" -> Ok(UnpackQ(full))
         [] OTHER -> Ok(BEValue(full))

\* struct.unpack(">" + fmt, b)[0]: the buffer must have exactly the format's size
Unpack(fmt, b) ==
    IF Len(b) # FmtWidth(fmt) THEN Raise(StructError)
    ELSE CASE fmt = "?" -> Ok(b[1] # 0)
           [] fmt = "Q" -> Ok(UnpackQ(b))
           [] OTHER -> Ok(BEValue(b))

\* struct.pack(">" + fmt, v): a value outside the format's range has no encoding.
\* (A ">L" value of the model is below 2^31, so only its sign is tested.)
StructPack(fmt, v) ==
    CASE fmt = "?" -> Ok(<<IF v THEN 1 ELSE 0>>)
      [] fmt = "Q" -> PackQ(v)
      [] fmt = "L" -> IF v < 0 THEN Raise(StructError) ELSE Ok(BEBytes(v, 4))
      [] OTHER -> IF v < 0 \/ v >= Pow256(FmtWidth(fmt)) THEN Raise(StructError)
                  ELSE Ok(BEBytes(v, FmtWidth(fmt)))

(***************************************************************************)
(* The external Signature and Certificate codecs: opaque blocks of a fixed *)
(* size, read and written verbatim; reading one from a stream that ends    *)
(* inside it fails.                                                        *)
(***************************************************************************)
\* Signature(sigtype=65537): an empty signature
NewSignature == Zeros(SigLen)

\* Signature(f).  pos is the stream offset.
SignatureParse(s, pos) ==
    IF Len(Read(s, pos, SigLen)) < SigLen THEN Raise(StructError)
    ELSE Ok(Read(s, pos, SigLen))

\* Signature.pack()
SignaturePack(sig) == sig

\* Signature.zerofill()
Zerofill(sig) == Zeros(Len(sig))

\* Certificate(sigtype=..., keytype=1): an empty certificate
NewCertificate == Zeros(CertLen)

\* Certificate(f)
CertificateParse(s, pos) ==
    IF Len(Read(s, pos, CertLen)) < CertLen THEN Raise(StructError)
    ELSE Ok(Read(s, pos, CertLen))

\* Certificate.pack()
CertificatePack(cert) == cert

(***************************************************************************)
(* The Ticket record.                                                      *)
(***************************************************************************)
ZeroTitleid == [neg |-> FALSE, mag |-> Zeros(16)]

\* Ticket.__init__: the empty Ticket
NewTicket ==
    [signature |-> NewSignature,
     issuer |-> Zeros(IssuerLen),
     ecdhdata |-> Zeros(EcdhdataLen),
     unused1 |-> Zeros(Unused1Len),
     titlekey |-> Zeros(TitlekeyLen),
     unknown1 |-> Zeros(Unknown1Len),
     ticketid |-> Zeros(TicketidLen),
     consoleid |-> 0,
     titleid |-> ZeroTitleid,
     unknown2 |-> Zeros(Unknown2Len),
     titleversion |-> 0,
     permitted_titles_mask |-> 0,
     permit_mask |-> 0,
     export_allowed |-> FALSE,
     ckeyindex |-> 0,
     unknown3 |-> Zeros(Unknown3Len),
     content_access_permissions |-> Zeros(ContentAccessLen),
     padding |-> 0,
     limits |-> Zeros(LimitsLen),
     certificates |-> <<NewCertificate, NewCertificate>>]

\* The fixed fields after the signature, in wire order: fmt "s" is a raw
\* f.read(width), any other fmt a struct format of that width.
Layout ==
    << [name |-> "issuer", fmt |-> "s", width |-> IssuerLen],
       [name |-> "ecdhdata", fmt |-> "s", width |-> EcdhdataLen],
       [name |-> "unused1", fmt |-> "s", width |-> Unused1Len],
       [name |-> "titlekey", fmt |-> "s", width |-> TitlekeyLen],
       [name |-> "unknown1", fmt |-> "s", width |-> Unknown1Len],
       [name |-> "ticketid", fmt |-> "s", width |-> TicketidLen],
       [name |-> "consoleid", fmt |-> "L", width |-> 4],
       [name |-> "titleid", fmt |-> "Q", width |-> 8],
       [name |-> "unknown2", fmt |-> "s", width |-> Unknown2Len],
       [name |-> "titleversion", fmt |-> "H", width |-> 2],
       [name |-> "permitted_titles_mask", fmt |-> "L", width |-> 4],
       [name |-> "permit_mask", fmt |-> "L", width |-> 4],
       [name |-> "export_allowed", fmt |-> "?", width |-> 1],
       [name |-> "ckeyindex", fmt |-> "B", width |-> 1],
       [name |-> "unknown3", fmt |-> "s", width |-> Unknown3Len],
       [name |-> "content_access_permissions", fmt |-> "s", width |-> ContentAccessLen],
       [name |-> "padding", fmt |-> "H", width |-> 2],
       [name |-> "limits", fmt |-> "s", width |-> LimitsLen] >>

RECURSIVE LayoutWidth(_)
LayoutWidth(k) == IF k = 0 THEN 0 ELSE LayoutWidth(k - 1) + Layout[k].width

\* bytes of the record without signature and certificates
RecordLen == LayoutWidth(Len(Layout))

\* bytes of a whole ticket stream
StreamLen == SigLen + RecordLen + 2 * CertLen

(***************************************************************************)
(* Ticket.parse.  The fields are assigned one by one, so a read that       *)
(* raises leaves the fields before it assigned.  The result is             *)
(* [t, err, at]: the object's fields afterwards, the error raised (or      *)
(* NoError) and the place that raised it.                                  *)
(***************************************************************************)
\* lines 37-54, from field k on; pos is the stream offset
RECURSIVE ParseFields(_, _, _, _)
ParseFields(s, pos, k, t) ==
    IF k > Len(Layout) THEN [t |-> t, err |-> NoError, at |-> "", pos |-> pos]
    ELSE LET f == Layout[k]
             raw == Read(s, pos, f.width)
         IN IF f.fmt = "s"
            THEN ParseFields(s, pos + Len(raw), k + 1, [t EXCEPT ![f.name] = raw])
            ELSE LET u == Unpack(f.fmt, raw)
                 IN IF u.err # NoError
                    THEN [t |-> t, err |-> u.err, at |-> f.name, pos |-> pos + Len(raw)]
                    ELSE ParseFields(s, pos + Len(raw), k + 1, [t EXCEPT ![f.name] = u.val])

\* lines 56-58: self.certificates = [], then two Certificate(f)
ParseCertificates(s, pos, t) ==
    LET c1 == CertificateParse(s, pos)
        c2 == CertificateParse(s, pos + CertLen)
    IN IF c1.err # NoError
       THEN [t |-> [t EXCEPT !.certificates = <<>>], err |-> c1.err, at |-> "certificates"]
       ELSE IF c2.err # NoError
       THEN [t |-> [t EXCEPT !.certificates = <<c1.val>>], err |-> c2.err, at |-> "certificates"]
       ELSE [t |-> [t EXCEPT !.certificates = <<c1.val, c2.val>>], err |-> NoError, at |-> ""]

Parse(t, s) ==
    LET sg == SignatureParse(s, 0)
    IN IF sg.err # NoError THEN [t |-> t, err |-> sg.err, at |-> "signature"]
       ELSE LET r == ParseFields(s, SigLen, 1, [t EXCEPT !.signature = sg.val])
            IN IF r.err # NoError THEN [t |-> r.t, err |-> r.err, at |-> r.at]
               ELSE ParseCertificates(s, r.pos, r.t)

(***************************************************************************)
(* Ticket.pack: [err, val], the bytes or the error struct.pack raised.     *)
(***************************************************************************)
\* the first error among struct.pack results, in the order the code packs them
FirstError(rs) ==
    IF \E k \in 1..Len(rs) : rs[k].err # NoError
    THEN rs[CHOOSE k \in 1..Len(rs) :
                rs[k].err # NoError /\ \A j \in 1..(k - 1) : rs[j].err = NoError].err
    ELSE NoError

Pack(t, include_signature, include_certificates) ==
    LET consoleid == StructPack("L", t.consoleid)
        titleid == StructPack("Q", t.titleid)
        titleversion == StructPack("H", t.titleversion)
        permitted_titles_mask == StructPack("L", t.permitted_titles_mask)
        permit_mask == StructPack("L", t.permit_mask)
        export_allowed == StructPack("?", t.export_allowed)
        ckeyindex == StructPack("B", t.ckeyindex)
        padding == StructPack("H", t.padding)
        e == FirstError(<<consoleid, titleid, titleversion, permitted_titles_mask,
                          permit_mask, export_allowed, ckeyindex, padding>>)
    IN IF e # NoError THEN Raise(e)
       ELSE Ok((IF include_signature THEN SignaturePack(t.signature) ELSE <<>>)
               \o t.issuer \o t.ecdhdata \o t.unused1 \o t.titlekey \o t.unknown1
               \o t.ticketid \o consoleid.val \o titleid.val \o t.unknown2
               \o titleversion.val \o permitted_titles_mask.val \o permit_mask.val
               \o export_allowed.val \o ckeyindex.val \o t.unknown3
               \o t.content_access_permissions \o padding.val \o t.limits
               \o (IF include_certificates
                   THEN t.certificates[1] \o t.certificates[2] ELSE <<>>))

(***************************************************************************)
(* Title id text: get_titleid and int(tid, 16).                            *)
(***************************************************************************)
RECURSIVE StripZeros(_)
StripZeros(d) == IF Len(d) > 1 /\ d[1] = 0 THEN StripZeros(Tail(d)) ELSE d

\* the sign-aware zero padding of format width 08 and of str.zfill
ZeroPad(s, w) ==
    IF Len(s) >= w THEN s
    ELSE IF s # <<>> /\ s[1] \in {"-", "+"}
         THEN <<s[1]>> \o [k \in 1..(w - Len(s)) |-> "0"] \o Tail(s)
         ELSE [k \in 1..(w - Len(s)) |-> "0"] \o s

\* "{:08X}".format(v)
Format08X(v) ==
    LET d == StripZeros(v.mag)
        digits == [k \in 1..Len(d) |-> UpperDigits[d[k] + 1]]
    IN ZeroPad((IF v.neg THEN <<"-">> ELSE <<>>) \o digits, 8)

\* Ticket.get_titleid
GetTitleid(t) == Lower(ZeroPad(Format08X(t.titleid), 16))

ValueError == "ValueError"

\* int(s, 16) on text over the hexadecimal digits, "+", "-" and other letters:
\* an optional sign, then one or more digits (at most 16 here).
IntBase16(s) ==
    LET signed == s # <<>> /\ s[1] \in {"-", "+"}
        d == IF signed THEN Tail(s) ELSE s
    IN IF d = <<>> \/ \E k \in 1..Len(d) : ~IsHexChar(d[k]) THEN Raise(ValueError)
       ELSE LET mag == [k \in 1..16 |-> IF k <= 16 - Len(d) THEN 0
                                        ELSE HexVal(d[k - (16 - Len(d))])]
            IN Ok([neg |-> signed /\ s[1] = "-" /\ mag # Zeros(16), mag |-> mag])

\* Ticket.set_titleid: [t, err].  (Every tid of the model is text, so the
\* isinstance test passes; the same holds for the other setters.)
SetTitleid(t, tid) ==
    IF Len(tid) # TitleidChars THEN [t |-> t, err |-> ValueError]
    ELSE LET v == IntBase16(tid)
         IN IF v.err # NoError THEN [t |-> t, err |-> v.err]
            ELSE [t |-> [t EXCEPT !.titleid = v.val], err |-> NoError]

\* Ticket.set_common_key_index: [t, err]
SetCommonKeyIndex(t, n) ==
    IF ~(0 <= n /\ n <= MaxCkeyindex) THEN [t |-> t, err |-> "Exception"]
    ELSE [t |-> [t EXCEPT !.ckeyindex = n], err |-> NoError]

(***************************************************************************)
(* The key table and the key resolver.                                     *)
(***************************************************************************)
\* WADGEN.DECRYPTION_KEYS: the common keys, index 0 first
DECRYPTION_KEYS == <<Fill(16, 235), Fill(16, 99), Fill(16, 48)>>

\* WADGEN.DSI_KEY
DSI_KEY == Fill(16, 175)

DsiPrefix == <<"0", "0", "0", "3", "0">>

\* GetDecryptionKey with the key table consulted before the title id prefix
GetDecryptionKeyIndexFirst(t) ==
    IF t.ckeyindex < Len(DECRYPTION_KEYS)
    THEN [ret |-> DECRYPTION_KEYS[t.ckeyindex + 1], warned |-> FALSE]
    ELSE IF StartsWith(GetTitleid(t), DsiPrefix) THEN [ret |-> DSI_KEY, warned |-> FALSE]
         ELSE [ret |-> DECRYPTION_KEYS[1], warned |-> TRUE]

\* Ticket.get_decryption_key: [ret, warned]
GetDecryptionKey(t) ==
    IF StartsWith(GetTitleid(t), DsiPrefix) THEN [ret |-> DSI_KEY, warned |-> FALSE]
    ELSE IF t.ckeyindex < Len(DECRYPTION_KEYS)
         THEN [ret |-> DECRYPTION_KEYS[t.ckeyindex + 1], warned |-> FALSE]
         ELSE [ret |-> DECRYPTION_KEYS[1], warned |-> TRUE]

key_types == <<"Normal", "Korean", "Wii U Wii Mode">>

\* GetCommonKeyType falling back to entry 0, as get_decryption_key does
GetCommonKeyTypeFallback(t) ==
    IF StartsWith(GetTitleid(t), DsiPrefix) THEN "DSi"
    ELSE IF t.ckeyindex < Len(key_types) THEN key_types[t.ckeyindex + 1]
         ELSE key_types[1]

\* Ticket.get_common_key_type
GetCommonKeyType(t) ==
    IF StartsWith(GetTitleid(t), DsiPrefix) THEN "DSi"
    ELSE IF t.ckeyindex < Len(key_types) THEN key_types[t.ckeyindex + 1]
         ELSE "Unknown"

\* Ticket.get_iv: [err, val]
GetIv(t) ==
    LET q == StructPack("Q", t.titleid)
    IN IF q.err # NoError THEN q ELSE Ok(q.val \o Zeros(8))

(***************************************************************************)
(* The title-key cipher (utils.Crypto) and binascii.a2b_hex.               *)
(***************************************************************************)
\* utils.Crypto.encrypt_titlekey: one 16-byte block, a bijection for each key and iv
EncryptTitlekey(commonkey, iv, titlekey) ==
    IF Len(titlekey) # 16 THEN Raise(ValueError)
    ELSE Ok([k \in 1..16 |-> (titlekey[k] + iv[k] + commonkey[k] + k) % 256])

\* utils.Crypto.decrypt_titlekey
DecryptTitlekey(commonkey, iv, titlekey) ==
    IF Len(titlekey) # 16 THEN Raise(ValueError)
    ELSE Ok([k \in 1..16 |-> (titlekey[k] + 1024 - iv[k] - commonkey[k] - k) % 256])

BinasciiError == "binascii.Error"

\* binascii.a2b_hex of text
A2bHexText(s) ==
    IF Len(s) % 2 # 0 \/ \E k \in 1..Len(s) : ~IsHexChar(s[k]) THEN Raise(BinasciiError)
    ELSE Ok([k \in 1..(Len(s) \div 2) |-> HexVal(s[2 * k - 1]) * 16 + HexVal(s[2 * k])])

\* the value of an ASCII code as a hexadecimal digit, -1 when it is none
AsciiHexVal(b) ==
    IF 48 <= b /\ b <= 57 THEN b - 48
    ELSE IF 65 <= b /\ b <= 70 THEN b - 55
    ELSE IF 97 <= b /\ b <= 102 THEN b - 87
    ELSE -1

\* binascii.a2b_hex of bytes: the bytes are read as ASCII hexadecimal digits
A2bHexBytes(b) ==
    IF Len(b) % 2 # 0 \/ \E k \in 1..Len(b) : AsciiHexVal(b[k]) < 0 THEN Raise(BinasciiError)
    ELSE Ok([k \in 1..(Len(b) \div 2) |->
                AsciiHexVal(b[2 * k - 1]) * 16 + AsciiHexVal(b[2 * k])])

\* Ticket.get_decrypted_titlekey: [err, val, warned]
GetDecryptedTitlekey(t) ==
    LET k == GetDecryptionKey(t)
        iv == GetIv(t)
    IN IF iv.err # NoError THEN [err |-> iv.err, val |-> <<>>, warned |-> k.warned]
       ELSE LET d == DecryptTitlekey(k.ret, iv.val, t.titlekey)
            IN [err |-> d.err, val |-> d.val, warned |-> k.warned]

\* Ticket.set_titlekey: [t, err, warned]
SetTitlekey(t, key, encrypted) ==
    IF Len(key) # TitlekeyChars THEN [t |-> t, err |-> "Exception", warned |-> FALSE]
    ELSE IF encrypted
    THEN LET b == A2bHexText(key)
         IN IF b.err # NoError THEN [t |-> t, err |-> b.err, warned |-> FALSE]
            ELSE [t |-> [t EXCEPT !.titlekey = b.val], err |-> NoError, warned |-> FALSE]
    ELSE LET k == GetDecryptionKey(t)
             iv == GetIv(t)
             p == A2bHexText(key)
         IN IF iv.err # NoError THEN [t |-> t, err |-> iv.err, warned |-> k.warned]
            ELSE IF p.err # NoError THEN [t |-> t, err |-> p.err, warned |-> k.warned]
            ELSE LET c == EncryptTitlekey(k.ret, iv.val, p.val)
                     b == A2bHexBytes(c.val)
                 IN IF c.err # NoError THEN [t |-> t, err |-> c.err, warned |-> k.warned]
                    ELSE IF b.err # NoError THEN [t |-> t, err |-> b.err, warned |-> k.warned]
                    ELSE [t |-> [t EXCEPT !.titlekey = b.val], err |-> NoError,
                          warned |-> k.warned]

(***************************************************************************)
(* Inputs.                                                                 *)
(***************************************************************************)
\* A well-formed ticket stream.  Every field has its own byte value (fill + its
\* position), so a field written at another field's place is seen.
MakeStream(fill, titleid, export, ckey, pad) ==
    Fill(SigLen, 170)
    \o Fill(IssuerLen, fill) \o Fill(EcdhdataLen, fill + 1) \o Fill(Unused1Len, fill + 2)
    \o Fill(TitlekeyLen, fill + 3) \o Fill(Unknown1Len, fill + 4) \o Fill(TicketidLen, fill + 5)
    \o <<0, 0, 1, 2>> \o titleid \o Fill(Unknown2Len, fill + 6) \o <<1, 3>>
    \o <<0, 0, 0, 5>> \o <<0, 6, 0, 0>> \o <<export>> \o <<ckey>>
    \o Fill(Unknown3Len, fill + 7) \o Fill(ContentAccessLen, fill + 8) \o pad
    \o Fill(LimitsLen, fill + 9) \o Fill(CertLen, 187) \o Fill(CertLen, 204)

\* title id 0001000248414341
TidWii == <<0, 1, 0, 2, 72, 65, 67, 65>>

\* title id 00030005484e4441
TidDsi == <<0, 3, 0, 5, 72, 78, 68, 65>>

\* export_allowed bytes: false, true, and a true that is not 0x01
ExportBytes == {0, 1, 2}

\* ckeyindex bytes: inside the key table and outside it
CkeyBytes == {0, 5, 255}

Streams ==
    { MakeStream(16, TidWii, e, 0, <<1, 44>>) : e \in ExportBytes }
    \cup { MakeStream(16, tid, 1, c, <<1, 44>>) : tid \in {TidWii, TidDsi}, c \in CkeyBytes }

BaseStream == MakeStream(16, TidWii, 1, 0, <<1, 44>>)

\* every stream that ends before the last certificate is fully read
Truncated == { SubSeq(BaseStream, 1, n) : n \in 0..(StreamLen - 1) }

TitleidInputs ==
    { <<"0","0","0","1","0","0","0","2","4","8","4","1","4","3","4","1">>,
      <<"0","0","0","3","0","0","0","5","4","8","4","E","4","4","4","1">>,
      <<"-","0","0","0","0","0","0","0","0","0","0","0","0","0","0","1">>,
      <<"0","0","0","1","0","0","0","2","4","8","4","1","4","3","4","g">>,
      <<"0","0","0","1","0","0","0">>,
      <<"0","0","0","1","0","0","0","2","4","8","4","1","4","3","4","1","0">> }

TitlekeyInputs ==
    { <<"0","0","0","0","0","0","0","0","0","0","0","0","0","0","0","0","0","0","0","0","0","0","0","0","0","0","0","0","0","0","0","0">>,
      <<"0","1","2","3","4","5","6","7","8","9","a","b","c","d","e","f","F","E","D","C","B","A","9","8","7","6","5","4","3","2","1","0">>,
      <<"0","0","0","0","0","0","0","0","0","0","0","0","0","0","0","0","0","0","0","0","0","0","0","0","0","0","0","0","0","0","0">>,
      <<"0","1","2","3","4","5","6","7","8","9","a","b","c","d","e","f","F","E","D","C","B","A","9","8","7","6","5","4","3","2","1","g">> }

CkeyindexInputs == {-1, 2, 3}

(***************************************************************************)
(* The state machine of one Ticket object.                                 *)
(***************************************************************************)
NoCall == [op |-> "", err |-> NoError]

Init ==
    /\ ticket = NewTicket
    /\ alive = FALSE
    /\ stream = <<>>
    /\ last = NoCall
    /\ warned = FALSE
    /\ pc = "idle"
    /\ i = 0
    /\ oldval = 0
    /\ pre = NewTicket
    /\ sha1zero = {}

fakesignVars == <<pc, i, oldval, pre, sha1zero>>

\* Ticket(): the empty Ticket
ConstructEmpty ==
    /\ last = NoCall
    /\ ticket' = NewTicket
    /\ alive' = TRUE
    /\ last' = [op |-> "Ticket", parsed |-> FALSE, err |-> NoError, at |-> ""]
    /\ UNCHANGED <<stream, warned, fakesignVars>>

\* Ticket(s): __init__ assigns the defaults, then parse reads the stream; the
\* caller gets the object only when parse did not raise.
Construct(s) ==
    /\ last = NoCall
    /\ LET r == Parse(NewTicket, s)
       IN /\ ticket' = r.t
          /\ alive' = (r.err = NoError)
          /\ last' = [op |-> "Ticket", parsed |-> TRUE, err |-> r.err, at |-> r.at]
    /\ stream' = s
    /\ UNCHANGED <<warned, fakesignVars>>

CallPack(include_signature, include_certificates) ==
    /\ alive /\ pc = "idle"
    /\ LET r == Pack(ticket, include_signature, include_certificates)
       IN last' = [op |-> "pack", err |-> r.err, ret |-> r.val,
                   include_signature |-> include_signature,
                   include_certificates |-> include_certificates]
    /\ warned' = FALSE
    /\ UNCHANGED <<ticket, alive, stream, fakesignVars>>

CallGetTitleid ==
    /\ alive /\ pc = "idle"
    /\ last' = [op |-> "get_titleid", err |-> NoError, ret |-> GetTitleid(ticket)]
    /\ warned' = FALSE
    /\ UNCHANGED <<ticket, alive, stream, fakesignVars>>

CallGetDecryptionKey ==
    /\ alive /\ pc = "idle"
    /\ LET r == GetDecryptionKey(ticket)
       IN /\ last' = [op |-> "get_decryption_key", err |-> NoError, ret |-> r.ret]
          /\ warned' = r.warned
    /\ UNCHANGED <<ticket, alive, stream, fakesignVars>>

CallGetCommonKeyType ==
    /\ alive /\ pc = "idle"
    /\ last' = [op |-> "get_common_key_type", err |-> NoError, ret |-> GetCommonKeyType(ticket)]
    /\ warned' = FALSE
    /\ UNCHANGED <<ticket, alive, stream, fakesignVars>>

CallGetDecryptedTitlekey ==
    /\ alive /\ pc = "idle"
    /\ LET r == GetDecryptedTitlekey(ticket)
       IN /\ last' = [op |-> "get_decrypted_titlekey", err |-> r.err, ret |-> r.val]
          /\ warned' = r.warned
    /\ UNCHANGED <<ticket, alive, stream, fakesignVars>>

CallSetTitleid(tid) ==
    /\ alive /\ pc = "idle"
    /\ LET r == SetTitleid(ticket, tid)
       IN /\ ticket' = r.t
          /\ last' = [op |-> "set_titleid", err |-> r.err, arg |-> tid]
    /\ warned' = FALSE
    /\ UNCHANGED <<alive, stream, fakesignVars>>

CallSetCommonKeyIndex(n) ==
    /\ alive /\ pc = "idle"
    /\ LET r == SetCommonKeyIndex(ticket, n)
       IN /\ ticket' = r.t
          /\ last' = [op |-> "set_common_key_index", err |-> r.err, arg |-> n]
    /\ warned' = FALSE
    /\ UNCHANGED <<alive, stream, fakesignVars>>

CallSetTitlekey(key, encrypted) ==
    /\ alive /\ pc = "idle"
    /\ LET r == SetTitlekey(ticket, key, encrypted)
       IN /\ ticket' = r.t
          /\ last' = [op |-> "set_titlekey", err |-> r.err, arg |-> key,
                      encrypted |-> encrypted]
          /\ warned' = r.warned
    /\ UNCHANGED <<alive, stream, fakesignVars>>

Next ==
    \/ ConstructEmpty
    \/ \E s \in Streams \cup Truncated : Construct(s)
    \/ \E s \in BOOLEAN, c \in BOOLEAN : CallPack(s, c)
    \/ CallGetTitleid
    \/ CallGetDecryptionKey
    \/ CallGetCommonKeyType
    \/ CallGetDecryptedTitlekey
    \/ \E tid \in TitleidInputs : CallSetTitleid(tid)
    \/ \E n \in CkeyindexInputs : CallSetCommonKeyIndex(n)
    \/ \E key \in TitlekeyInputs, e \in BOOLEAN : CallSetTitlekey(key, e)

Spec == Init /\ [][Next]_vars

(***************************************************************************)
(* fakesign.  utils.Crypto.create_sha1hash_hex is an external primitive: of *)
(* its digest only the test startswith("00") is used, and sha1zero holds    *)
(* the padding values at which the unsigned record of the constructed       *)
(* ticket passes it.  It is fixed when the behaviour starts, so the digest  *)
(* is a function of the packed bytes.  (The one title id that set_titleid   *)
(* accepts under SpecFakesign is negative: such a ticket cannot be packed,  *)
(* and no digest of it is ever taken.)                                      *)
(***************************************************************************)
\* the padding field's value in a record packed without signature
PaddingAt == LayoutWidth(16)

PaddingOf(rec) == BEValue(SubSeq(rec, PaddingAt + 1, PaddingAt + 2))

\* utils.Crypto.create_sha1hash_hex(rec).startswith("00")
Sha1StartsWith00(rec, zero) == PaddingOf(rec) \in zero

\* FakesignBody with the digest taken before the candidate is stored in padding
FakesignBodyStale(t, n, old, zero) ==
    LET t1 == [t EXCEPT !.padding = n]
        rec == Pack(t, FALSE, FALSE)
    IN IF rec.err # NoError THEN [t |-> t1, pc |-> "raised", i |-> n, err |-> rec.err]
       ELSE IF Sha1StartsWith00(rec.val, zero)
            THEN [t |-> t1, pc |-> "returned", i |-> n, err |-> NoError]
       ELSE IF n + 1 < PadCandidates
            THEN [t |-> t1, pc |-> "loop", i |-> n + 1, err |-> NoError]
       ELSE [t |-> [t1 EXCEPT !.padding = old], pc |-> "raised", i |-> n,
             err |-> "Fakesigning failed."]

\* FakesignBody that keeps searching after a hit when a later candidate may hit too
FakesignBodyLastHit(t, n, old, zero) ==
    LET t1 == [t EXCEPT !.padding = n]
        rec == Pack(t1, FALSE, FALSE)
    IN IF rec.err # NoError THEN [t |-> t1, pc |-> "raised", i |-> n, err |-> rec.err]
       ELSE IF Sha1StartsWith00(rec.val, zero) /\ ~\E p \in zero : n < p /\ p < PadCandidates
            THEN [t |-> t1, pc |-> "returned", i |-> n, err |-> NoError]
       ELSE IF n + 1 < PadCandidates
            THEN [t |-> t1, pc |-> "loop", i |-> n + 1, err |-> NoError]
       ELSE [t |-> [t1 EXCEPT !.padding = old], pc |-> "raised", i |-> n,
             err |-> "Fakesigning failed."]

\* One pass of the for loop's body with loop variable n, and what follows it:
\* [t, pc, i, err].  pc "loop" continues with the next candidate, "returned" is
\* the return on a hit, "raised" an exception leaving fakesign.
FakesignBody(t, n, old, zero) ==
    LET t1 == [t EXCEPT !.padding = n]
        rec == Pack(t1, FALSE, FALSE)
    IN IF rec.err # NoError THEN [t |-> t1, pc |-> "raised", i |-> n, err |-> rec.err]
       ELSE IF Sha1StartsWith00(rec.val, zero)
            THEN [t |-> t1, pc |-> "returned", i |-> n, err |-> NoError]
       ELSE IF n + 1 < PadCandidates
            THEN [t |-> t1, pc |-> "loop", i |-> n + 1, err |-> NoError]
       ELSE [t |-> [t1 EXCEPT !.padding = old], pc |-> "raised", i |-> n,
             err |-> "Fakesigning failed."]

\* fakesign, up to the loop: oldval = self.padding; self.signature.zerofill()
CallFakesign ==
    /\ alive /\ pc = "idle"
    /\ oldval' = ticket.padding
    /\ pre' = ticket
    /\ ticket' = [ticket EXCEPT !.signature = Zerofill(@)]
    /\ i' = 0
    /\ pc' = "loop"
    /\ last' = [op |-> "fakesign", err |-> NoError]
    /\ warned' = FALSE
    /\ UNCHANGED <<alive, stream, sha1zero>>

\* fakesign, one candidate
FakesignStep ==
    /\ pc = "loop"
    /\ LET r == FakesignBody(ticket, i, oldval, sha1zero)
       IN /\ ticket' = r.t
          /\ pc' = r.pc
          /\ i' = r.i
          /\ last' = [op |-> "fakesign", err |-> r.err]
    /\ UNCHANGED <<alive, stream, warned, oldval, pre, sha1zero>>

\* two streams that differ in the padding field only
FakesignStreams ==
    { MakeStream(16, TidWii, 1, 0, pad) : pad \in {<<1, 44>>, <<255, 255>>} }

\* a signed title id text, which int(tid, 16) accepts, and a text that is too short
FakesignTitleidInputs ==
    { <<"-","0","0","0","0","0","0","0","0","0","0","0","0","0","0","1">>,
      <<"0","0","0","1","0","0","0">> }

\* the digests that can start with 00: at the first candidate, at later ones, at
\* the last candidate only, and at no candidate at all (65535 is none)
ZeroDigestSets == { {0}, {2}, {1, 3}, {PadCandidates - 1}, {PadCandidates} }

\* The streams tried with each digest set: both streams where the search is short,
\* the first stream alone where it runs to the last candidate.
FakesignCases ==
    { c \in FakesignStreams \X ZeroDigestSets :
        c[1] = BaseStream \/ \A z \in c[2] : z < 4 }

InitFakesign ==
    /\ ticket = NewTicket
    /\ alive = FALSE
    /\ stream = <<>>
    /\ last = NoCall
    /\ warned = FALSE
    /\ pc = "idle"
    /\ i = 0
    /\ oldval = 0
    /\ pre = NewTicket
    /\ sha1zero \in ZeroDigestSets

NextFakesign ==
    \/ \E s \in FakesignStreams : <<s, sha1zero>> \in FakesignCases /\ Construct(s)
    \/ \E tid \in FakesignTitleidInputs : CallSetTitleid(tid)
    \/ CallFakesign
    \/ FakesignStep

SpecFakesign == InitFakesign /\ [][NextFakesign]_vars

(***************************************************************************)
(* Properties of the codec and of the accessors, under Spec.               *)
(***************************************************************************)
\* the 16-character title id text begins with "00030"
HasDsiPrefix(t) == StartsWith(GetTitleid(t), DsiPrefix)

\* the ticket has the field values parse gave it
FreshlyParsed == alive /\ stream # <<>> /\ ticket = Parse(NewTicket, stream).t

\* C1: pack(include_signature=True, include_certificates=True) of a freshly
\* parsed Ticket returns exactly the stream that was parsed.
C1_RoundTrip ==
    (/\ last.op = "pack"
     /\ last.include_signature /\ last.include_certificates
     /\ FreshlyParsed)
    => (last.err = NoError /\ last.ret = stream)

IsHexText(s) == \A k \in 1..Len(s) : IsHexChar(s[k])

\* C5: set_titlekey(p, encrypted=False) with 32 hexadecimal characters p completes,
\* stores the 16-byte encryption of p under the resolved key and IV, and
\* get_decrypted_titlekey then returns the bytes p denotes.
C5_PlainTitlekeyStored ==
    (/\ last.op = "set_titlekey"
     /\ ~last.encrypted
     /\ Len(last.arg) = TitlekeyChars /\ IsHexText(last.arg))
    => (/\ last.err = NoError
        /\ Len(ticket.titlekey) = TitlekeyLen
        /\ GetIv(ticket).err = NoError
        /\ ticket.titlekey = EncryptTitlekey(GetDecryptionKey(ticket).ret, GetIv(ticket).val,
                                             A2bHexText(last.arg).val).val
        /\ GetDecryptedTitlekey(ticket).err = NoError
        /\ GetDecryptedTitlekey(ticket).val = A2bHexText(last.arg).val)

\* C6: get_decryption_key returns the DSi key whenever the title id text begins
\* with "00030", whatever ckeyindex is, and otherwise the key table's entry
\* ckeyindex when ckeyindex is inside the table.
C6_KeyResolution ==
    last.op = "get_decryption_key"
    => (/\ last.err = NoError
        /\ HasDsiPrefix(ticket) => last.ret = DSI_KEY
        /\ (~HasDsiPrefix(ticket) /\ ticket.ckeyindex < Len(DECRYPTION_KEYS))
           => last.ret = DECRYPTION_KEYS[ticket.ckeyindex + 1])

\* get_decryption_key has answered with the DSi key for a ckeyindex outside the table
C6_Witness ==
    /\ last.op = "get_decryption_key"
    /\ HasDsiPrefix(ticket)
    /\ ticket.ckeyindex >= Len(DECRYPTION_KEYS)
    /\ last.ret = DSI_KEY

OutOfTable(t) == t.ckeyindex \in Len(DECRYPTION_KEYS)..255 /\ ~HasDsiPrefix(t)

\* C7: with ckeyindex outside the key table and no "00030" prefix,
\* get_decryption_key does not fail, warns and returns key table entry 0, and
\* get_common_key_type returns "Unknown".
C7_OutOfRangeIndex ==
    /\ (last.op = "get_decryption_key" /\ OutOfTable(ticket))
       => (last.err = NoError /\ warned /\ last.ret = DECRYPTION_KEYS[1])
    /\ (last.op = "get_common_key_type" /\ OutOfTable(ticket))
       => (last.err = NoError /\ last.ret = "Unknown" /\ last.ret # "Normal")

\* get_common_key_type has answered on a ticket parsed with ckeyindex 5, for which
\* get_decryption_key warns and falls back to entry 0
C7_Witness ==
    /\ last.op = "get_common_key_type"
    /\ ticket.ckeyindex = 5 /\ OutOfTable(ticket)
    /\ last.ret = "Unknown"
    /\ GetDecryptionKey(ticket).warned
    /\ GetDecryptionKey(ticket).ret = DECRYPTION_KEYS[1]

IsLowerHexText(s) == \A k \in 1..Len(s) : \E d \in 1..16 : LowerDigits[d] = s[k]

\* C8: whatever set_titleid calls came before, get_titleid returns exactly 16
\* characters, each in 0-9a-f.
C8_TitleidText ==
    last.op = "get_titleid"
    => (Len(last.ret) = TitleidChars /\ IsLowerHexText(last.ret))

\* the place where parse raises on a stream of n bytes: the signature, the first
\* struct field that does not lie wholly inside the stream, or the certificates
RaisesAt(n) ==
    IF n < SigLen THEN "signature"
    ELSE IF \E k \in 1..Len(Layout) : Layout[k].fmt # "s" /\ SigLen + LayoutWidth(k) > n
    THEN Layout[CHOOSE k \in 1..Len(Layout) :
                    /\ Layout[k].fmt # "s" /\ SigLen + LayoutWidth(k) > n
                    /\ \A j \in 1..(k - 1) :
                          ~(Layout[j].fmt # "s" /\ SigLen + LayoutWidth(j) > n)].name
    ELSE "certificates"

Candidates == 0..(PadCandidates - 1)

\* the unsigned record of the ticket as it is now has a digest starting with 00
DigestStartsWith00 ==
    /\ Pack(ticket, FALSE, FALSE).err = NoError
    /\ Sha1StartsWith00(Pack(ticket, FALSE, FALSE).val, sha1zero)

\* C2, as claimed: fakesign always ends by returning, with padding some p in
\* 0..65534 whose unsigned-record digest starts with 00.
C2_AlwaysSucceeds ==
    /\ pc # "raised"
    /\ pc = "returned" => (ticket.padding \in Candidates /\ DigestStartsWith00)

\* C2, amended: fakesign always terminates (its loop variable stays within
\* 0..65534 and every pass of the loop either leaves the loop or raises it by
\* one), and whenever it returns without raising, padding is some p in 0..65534
\* whose unsigned-record digest starts with 00; otherwise it raises.
C2_ReturnsOnlyOnHit ==
    /\ [](pc = "loop" => i \in Candidates)
    /\ [][pc = "loop" => (pc' \in {"returned", "raised"} \/ (pc' = "loop" /\ i' = i + 1))]_vars
    /\ [](pc = "returned" => (/\ last.err = NoError
                              /\ ticket.padding \in Candidates
                              /\ DigestStartsWith00))
    /\ [](pc = "raised" => last.err # NoError)

\* fakesign has passed two misses and returned at the hit, on the ticket that
\* came with padding 300
C2_Witness ==
    /\ pc = "returned"
    /\ sha1zero = {2}
    /\ ticket.padding = 2
    /\ oldval = 300
    /\ DigestStartsWith00

\* C3: the candidates are tried in ascending order from 0, 65535 is never tried,
\* and the search stops at the first hit: on success padding is the smallest p in
\* 0..65534 whose digest starts with 00, whatever the padding was before.
C3_FirstHit ==
    /\ [](pc = "loop" => (i \in Candidates /\ \A p \in sha1zero : p >= i))
    /\ [](pc = "returned" => (/\ ticket.padding \in sha1zero \cap Candidates
                              /\ \A p \in sha1zero \cap Candidates : p >= ticket.padding))
    /\ [][(pc = "idle" /\ pc' = "loop") => i' = 0]_vars
    /\ [][pc = "loop" => (/\ ticket'.padding \in {i, oldval}
                          /\ pc' = "loop" => (i' = i + 1 /\ ticket'.padding = i)
                          /\ pc' = "returned" => ticket'.padding = i)]_vars

\* fakesign has passed a miss and returned at the smaller of two hits, on the
\* ticket that came with padding 65535
C3_Witness ==
    /\ pc = "returned"
    /\ sha1zero = {1, 3}
    /\ ticket.padding = 1
    /\ oldval = 65535

\* C4: when no candidate hits, fakesign fails only after it has set padding back
\* to the value it had at the call: it never fails with another padding.
C4_RestoredBeforeFailure ==
    pc = "raised" => (ticket.padding = oldval /\ last.err = "Fakesigning failed.")

\* C10: fakesign changes no field but signature and padding, the signature is
\* zero-filled from the first candidate on, and after a failure padding is back
\* at its value before the call.
C10_FrameEffect ==
    pc \in {"loop", "returned", "raised"}
    => (/\ [ticket EXCEPT !.signature = pre.signature, !.padding = pre.padding] = pre
        /\ ticket.signature = Zeros(SigLen)
        /\ pc = "raised" => ticket.padding = pre.padding)

====
